---- MODULE Spec2Model ----
(***************************************************************************)
(* Catalog metadata and selection resolution of singer_sdk                 *)
(* (singer_sdk/helpers/_singer.py): Metadata / StreamMetadata records,     *)
(* MetadataMapping (breadcrumb -> record), SelectionMask (breadcrumb ->    *)
(* bool), CatalogEntry and Catalog (tap_stream_id -> entry), with their    *)
(* dictionary forms.                                                       *)
(*                                                                         *)
(* Python values are modelled as follows.  None is the empty tuple and a   *)
(* value v that is not None is the one-element tuple <<v>>, so that an     *)
(* optional field keeps the difference between unset and False.  A tuple   *)
(* of strings (a Breadcrumb) is a sequence of strings.  A dict is a        *)
(* function whose DOMAIN is its key set; a dataclass instance is a record  *)
(* whose DOMAIN is dataclasses.fields() of its class.                      *)
(***************************************************************************)
EXTENDS Naturals, Sequences, FiniteSets, TLC

VARIABLES
    mapping,    \* the live MetadataMapping
    mask,       \* the SelectionMask returned by the last resolve_selection()
    pc,         \* position of the calling program
    arg,        \* breadcrumb of the last lookup
    ret,        \* value returned by the last lookup
    wire,       \* the metadata list received from outside, if any
    doc,        \* the list returned by the last to_list()
    parsed,     \* the MetadataMapping returned by the last from_iterable()
    entry,      \* the CatalogEntry that was constructed
    entry_dict, \* the dictionary returned by entry.to_dict()
    entry_parsed, \* the CatalogEntry returned by CatalogEntry.from_dict()
    mapping0,   \* the MetadataMapping as it was before the last mapping[b]
    mask0,      \* the SelectionMask resolved before the last mapping[b]
    calls,      \* breadcrumb -> number of _breadcrumb_is_selected() calls
                \* made for it by the last resolve_selection()
    args,       \* the arguments of the last get_standard_metadata()
    catalog,    \* the live Catalog (tap_stream_id -> CatalogEntry)
    log,        \* the entries parsed or added so far, oldest first
    cat_wire,   \* the catalog document received from outside, if any
    cat_dict,   \* the document returned by the last Catalog.to_dict()
    catalog2,   \* the Catalog parsed again from cat_dict
    masks       \* tap_stream_id -> mask resolved from the reparsed metadata

liveVars == <<mapping0, mask0, calls>>
stdVars == <<args>>
catVars == <<catalog, log, cat_wire, cat_dict, catalog2, masks>>

vars == <<mapping, mask, pc, arg, ret, wire, doc, parsed, entry, entry_dict, entry_parsed,
          liveVars, stdVars, catVars>>

\* The variables of the lookup, seeding and catalog programs, while unused.
LiveIdle == mapping0 = << >> /\ mask0 = << >> /\ calls = << >>
StdIdle == args = << >>
CatIdle ==
    /\ catalog = << >>
    /\ log = << >>
    /\ cat_wire = << >>
    /\ cat_dict = << >>
    /\ catalog2 = << >>
    /\ masks = << >>

----------------------------------------------------------------------------
(* Bounds of the model *)

\* Deepest breadcrumb used as a key: MaxDepth pairs ("properties", name).
MaxDepth == 2

\* Largest number of entries put into a metadata mapping.
MaxEntries == 2

----------------------------------------------------------------------------
(* Values *)

None == << >>

Some(v) == <<v>>

\* Optional[bool]
OptBool == {None, Some(TRUE), Some(FALSE)}

\* Metadata.InclusionType, or None
InclusionType == {Some("available"), Some("automatic"), Some("unsupported")}

OptInclusion == {None} \cup InclusionType

\* Property names of the schema tree.
FieldNames == {"id"}

\* Breadcrumbs of exactly d nested properties: ("properties", name) * d.
RECURSIVE BreadcrumbsOfDepth(_)
BreadcrumbsOfDepth(d) ==
    IF d = 0 THEN {<< >>}
    ELSE {b \o <<"properties", n>> : b \in BreadcrumbsOfDepth(d - 1), n \in FieldNames}

\* The breadcrumbs that are used as keys: the root and the well-formed paths
\* (alternating "properties" and a name) of up to MaxDepth properties.
Breadcrumbs == UNION {BreadcrumbsOfDepth(d) : d \in 0..MaxDepth}

\* The breadcrumbs that are looked up: the keys and one level below them.
LookupBreadcrumbs == UNION {BreadcrumbsOfDepth(d) : d \in 0..(MaxDepth + 1)}

\* breadcrumb[:-2]
Parent(breadcrumb) ==
    IF Len(breadcrumb) >= 2 THEN SubSeq(breadcrumb, 1, Len(breadcrumb) - 2) ELSE << >>

----------------------------------------------------------------------------
(* Metadata and StreamMetadata *)

\* dataclasses.fields(Metadata)
MetadataFields == {"inclusion", "selected", "selected_by_default"}

\* dataclasses.fields(StreamMetadata): the inherited fields and its own.
StreamMetadataFields ==
    MetadataFields \cup {"table_key_properties", "forced_replication_method",
                         "valid_replication_keys", "schema_name"}

\* Metadata(): every field None.
Metadata == [f \in MetadataFields |-> None]

\* StreamMetadata(): every field None.
StreamMetadata == [f \in StreamMetadataFields |-> None]

\* Field records with every combination of the three selection fields.
FieldRecords ==
    {[inclusion |-> i, selected |-> s, selected_by_default |-> d] :
        i \in OptInclusion, s \in OptBool, d \in OptBool}

\* Stream records with every combination of the three selection fields and
\* the stream-level fields unset.
PlainStreamRecords ==
    {[f \in StreamMetadataFields |->
        IF f \in MetadataFields THEN r[f] ELSE None] : r \in FieldRecords}

----------------------------------------------------------------------------
(* SelectionMask *)

RECURSIVE SelectionMask_getitem(_, _)

\* Faulty variant of SelectionMask_missing: the root defaults to False.
SelectionMask_missing_RootFalse(self, breadcrumb) ==
    IF Len(breadcrumb) >= 2
    THEN SelectionMask_getitem(self, Parent(breadcrumb))
    ELSE FALSE

\* Faulty variant of SelectionMask_missing: True without asking the parent.
SelectionMask_missing_NoParent(self, breadcrumb) == TRUE

\* SelectionMask.__missing__: a property defaults to the lookup of its parent,
\* the root to True.
SelectionMask_missing(self, breadcrumb) ==
    IF Len(breadcrumb) >= 2
    THEN SelectionMask_getitem(self, Parent(breadcrumb))
    ELSE TRUE

\* SelectionMask.__getitem__: dict.__getitem__ with the __missing__ hook.
SelectionMask_getitem(self, breadcrumb) ==
    IF breadcrumb \in DOMAIN self
    THEN self[breadcrumb]
    ELSE SelectionMask_missing(self, breadcrumb)

----------------------------------------------------------------------------
(* MetadataMapping: selection resolution *)

\* self.get(breadcrumb, Metadata())
MappingGet(self, breadcrumb) ==
    IF breadcrumb \in DOMAIN self THEN self[breadcrumb] ELSE Metadata

\* Faulty variant of SelectionOf: a parent that is not selected is ignored.
SelectionOf_NoParentOverride(md_entry, parent_value) ==
    IF md_entry.inclusion = Some("unsupported") THEN FALSE
    ELSE IF md_entry.inclusion = Some("automatic") THEN TRUE
    ELSE IF md_entry.selected # None THEN md_entry.selected[1]
    ELSE IF md_entry.selected_by_default # None THEN md_entry.selected_by_default[1]
    ELSE parent_value = Some(TRUE)

\* Faulty variant of SelectionOf: selected is honoured before automatic.
SelectionOf_SelectedBeforeAutomatic(md_entry, parent_value) ==
    IF parent_value = Some(FALSE) THEN FALSE
    ELSE IF md_entry.inclusion = Some("unsupported") THEN FALSE
    ELSE IF md_entry.selected # None THEN md_entry.selected[1]
    ELSE IF md_entry.inclusion = Some("automatic") THEN TRUE
    ELSE IF md_entry.selected_by_default # None THEN md_entry.selected_by_default[1]
    ELSE parent_value = Some(TRUE)

\* Faulty variant of SelectionOf: selected is honoured before unsupported.
SelectionOf_SelectedBeforeUnsupported(md_entry, parent_value) ==
    IF parent_value = Some(FALSE) THEN FALSE
    ELSE IF md_entry.selected # None THEN md_entry.selected[1]
    ELSE IF md_entry.inclusion = Some("unsupported") THEN FALSE
    ELSE IF md_entry.inclusion = Some("automatic") THEN TRUE
    ELSE IF md_entry.selected_by_default # None THEN md_entry.selected_by_default[1]
    ELSE parent_value = Some(TRUE)

\* Faulty variant of SelectionOf: selected_by_default is honoured before
\* selected.
SelectionOf_DefaultBeforeSelected(md_entry, parent_value) ==
    IF parent_value = Some(FALSE) THEN FALSE
    ELSE IF md_entry.inclusion = Some("unsupported") THEN FALSE
    ELSE IF md_entry.inclusion = Some("automatic") THEN TRUE
    ELSE IF md_entry.selected_by_default # None THEN md_entry.selected_by_default[1]
    ELSE IF md_entry.selected # None THEN md_entry.selected[1]
    ELSE parent_value = Some(TRUE)

\* Faulty variant of SelectionOf: nothing is inherited from the parent.
SelectionOf_NoInheritance(md_entry, parent_value) ==
    IF parent_value = Some(FALSE) THEN FALSE
    ELSE IF md_entry.inclusion = Some("unsupported") THEN FALSE
    ELSE IF md_entry.inclusion = Some("automatic") THEN TRUE
    ELSE IF md_entry.selected # None THEN md_entry.selected[1]
    ELSE IF md_entry.selected_by_default # None THEN md_entry.selected_by_default[1]
    ELSE FALSE

\* _breadcrumb_is_selected after the parent's value is known: the parent
\* override, then unsupported, automatic, selected, selected_by_default, and
\* last "parent_value or False".  parent_value is None for the root.
SelectionOf(md_entry, parent_value) ==
    IF parent_value = Some(FALSE) THEN FALSE
    ELSE IF md_entry.inclusion = Some("unsupported") THEN FALSE
    ELSE IF md_entry.inclusion = Some("automatic") THEN TRUE
    ELSE IF md_entry.selected # None THEN md_entry.selected[1]
    ELSE IF md_entry.selected_by_default # None THEN md_entry.selected_by_default[1]
    ELSE parent_value = Some(TRUE)

\* MetadataMapping._breadcrumb_is_selected
RECURSIVE breadcrumb_is_selected(_, _)
breadcrumb_is_selected(self, breadcrumb) ==
    IF DOMAIN self = {}
    THEN TRUE
    ELSE LET md_entry == MappingGet(self, breadcrumb)
             parent_value ==
                 IF Len(breadcrumb) > 0
                 THEN Some(breadcrumb_is_selected(self, Parent(breadcrumb)))
                 ELSE None
         IN  SelectionOf(md_entry, parent_value)

\* MetadataMapping.resolve_selection: one value per key of the mapping.
resolve_selection(self) ==
    [breadcrumb \in DOMAIN self |-> breadcrumb_is_selected(self, breadcrumb)]

----------------------------------------------------------------------------
(* Metadata and MetadataMapping: dictionary forms *)

\* object_field.name.replace("_", "-")
Hyphenated(name) ==
    CASE name = "selected_by_default" -> "selected-by-default"
      [] name = "table_key_properties" -> "table-key-properties"
      [] name = "forced_replication_method" -> "forced-replication-method"
      [] name = "valid_replication_keys" -> "valid-replication-keys"
      [] name = "schema_name" -> "schema-name"
      [] OTHER -> name

\* dict.get(key): the value of the key, None when the dict has no such key.
DictGet(value, key) == IF key \in DOMAIN value THEN value[key] ELSE None

\* Faulty variant of from_dict: the keys are read under the field names
\* themselves, without replace("_", "-").
from_dict_NoHyphen(cls_fields, value) ==
    [f \in cls_fields |-> DictGet(value, f)]

\* Metadata.from_dict: cls(**{name: value.get(hyphenated name)}) over
\* fields(cls); cls is given by its fields.
from_dict(cls_fields, value) ==
    [f \in cls_fields |-> DictGet(value, Hyphenated(f))]

\* Faulty variant of to_dict: selected and selected_by_default are written
\* only when they are True.
to_dict_FalseNotWritten(self) ==
    LET present == {f \in DOMAIN self :
                       /\ self[f] # None
                       /\ f \in {"selected", "selected_by_default"} => self[f] = Some(TRUE)}
    IN  [k \in {Hyphenated(f) : f \in present} |->
            self[CHOOSE f \in present : Hyphenated(f) = k]]

\* Metadata.to_dict: the fields that are not None, under hyphenated names.
to_dict(self) ==
    LET present == {f \in DOMAIN self : self[f] # None}
    IN  [k \in {Hyphenated(f) : f \in present} |->
            self[CHOOSE f \in present : Hyphenated(f) = k]]

\* list(k) of a tuple k, and tuple(l) of such a list.
ListOf(k) == [list |-> k]

TupleOf(l) == l.list

\* The orders in which a dict with key set keys is iterated: its insertion
\* order, which the mapping as a function does not record, so every order.
Orders(keys) ==
    {o \in [1..Cardinality(keys) -> keys] :
        \A i, j \in 1..Cardinality(keys) : i # j => o[i] # o[j]}

\* MetadataMapping.to_list, the items taken in the given order.
to_list(self, order) ==
    [i \in 1..Len(order) |->
        [breadcrumb |-> ListOf(order[i]), metadata |-> to_dict(self[order[i]])]]

\* dict.__setitem__
SetItemOf(self, key, v) ==
    [k \in DOMAIN self \cup {key} |-> IF k = key THEN v ELSE self[k]]

\* The loop of MetadataMapping.from_iterable from the i-th dictionary on.
RECURSIVE from_iterable_from(_, _, _)
from_iterable_from(acc, iterable, i) ==
    IF i > Len(iterable)
    THEN acc
    ELSE LET d == iterable[i]
             breadcrumb == TupleOf(d.breadcrumb)
             metadata == d.metadata
         IN  from_iterable_from(
                 SetItemOf(acc, breadcrumb,
                     IF breadcrumb # << >>
                     THEN from_dict(MetadataFields, metadata)
                     ELSE from_dict(StreamMetadataFields, metadata)),
                 iterable, i + 1)

\* MetadataMapping.from_iterable
from_iterable(iterable) == from_iterable_from(<< >>, iterable, 1)

----------------------------------------------------------------------------
(* MetadataMapping: lookups, and what a resolution does besides its result *)

\* Faulty variant of MetadataMapping_missing: the default record is returned
\* but not stored.
MetadataMapping_missing_NotStored(self, breadcrumb) ==
    [self |-> self,
     ret |-> IF breadcrumb # << >> THEN Metadata ELSE StreamMetadata]

\* Faulty variant of MetadataMapping_missing: a field-level record is stored
\* for every breadcrumb, the root included.
MetadataMapping_missing_FieldLevelRoot(self, breadcrumb) ==
    LET stored == SetItemOf(self, breadcrumb, Metadata)
    IN  [self |-> stored, ret |-> stored[breadcrumb]]

\* MetadataMapping.__missing__: the default record is stored under the
\* breadcrumb and the stored record is returned.  The result is the pair of
\* the mapping afterwards (self) and the value returned (ret).
MetadataMapping_missing(self, breadcrumb) ==
    LET stored == SetItemOf(self, breadcrumb,
                      IF breadcrumb # << >> THEN Metadata ELSE StreamMetadata)
    IN  [self |-> stored, ret |-> stored[breadcrumb]]

\* MetadataMapping.__getitem__: dict.__getitem__ with the __missing__ hook.
MetadataMapping_getitem(self, breadcrumb) ==
    IF breadcrumb \in DOMAIN self
    THEN [self |-> self, ret |-> self[breadcrumb]]
    ELSE MetadataMapping_missing(self, breadcrumb)

\* MetadataMapping.root
MetadataMapping_root(self) == MetadataMapping_getitem(self, << >>)

\* Faulty variant of SelfAfterGet: the entry is read with self[breadcrumb].
SelfAfterGet_GetItem(self, breadcrumb) ==
    MetadataMapping_getitem(self, breadcrumb).self

\* The mapping after self.get(breadcrumb, Metadata()): dict.get stores
\* nothing.
SelfAfterGet(self, breadcrumb) == self

\* The mapping after _breadcrumb_is_selected(breadcrumb).
RECURSIVE SelfAfterIsSelected(_, _)
SelfAfterIsSelected(self, breadcrumb) ==
    IF DOMAIN self = {}
    THEN self
    ELSE LET got == SelfAfterGet(self, breadcrumb)
         IN  IF Len(breadcrumb) > 0
             THEN SelfAfterIsSelected(got, Parent(breadcrumb))
             ELSE got

\* The mapping after _breadcrumb_is_selected was called for each of keys.
RECURSIVE SelfAfterEach(_, _)
SelfAfterEach(self, keys) ==
    IF keys = {}
    THEN self
    ELSE LET breadcrumb == CHOOSE k \in keys : TRUE
         IN  SelfAfterEach(SelfAfterIsSelected(self, breadcrumb),
                           keys \ {breadcrumb})

\* The mapping after resolve_selection(): one call per key it had.
SelfAfterResolve(self) == SelfAfterEach(self, DOMAIN self)

\* How many times _breadcrumb_is_selected(target) runs within one call
\* _breadcrumb_is_selected(breadcrumb): the call itself and the recursion to
\* the parent.
RECURSIVE CallsFrom(_, _, _)
CallsFrom(self, breadcrumb, target) ==
    (IF breadcrumb = target THEN 1 ELSE 0)
    + (IF DOMAIN self # {} /\ Len(breadcrumb) > 0
       THEN CallsFrom(self, Parent(breadcrumb), target)
       ELSE 0)

\* The same, summed over the calls resolve_selection() makes for keys.
RECURSIVE CallsFromEach(_, _, _)
CallsFromEach(self, keys, target) ==
    IF keys = {}
    THEN 0
    ELSE LET breadcrumb == CHOOSE k \in keys : TRUE
         IN  CallsFrom(self, breadcrumb, target)
             + CallsFromEach(self, keys \ {breadcrumb}, target)

\* breadcrumb -> number of times one resolve_selection() computes it.
CallsOfResolve(self) ==
    [target \in LookupBreadcrumbs |-> CallsFromEach(self, DOMAIN self, target)]

----------------------------------------------------------------------------
(* Specification Spec: a mapping is filled entry by entry, then resolved *)

\* The records an entry at breadcrumb b is given.
RecordsAt(b) == IF b = << >> THEN PlainStreamRecords ELSE FieldRecords

Init ==
    /\ mapping = << >>
    /\ mask = << >>
    /\ pc = "build"
    /\ arg = << >>
    /\ ret = None
    /\ wire = << >>
    /\ doc = << >>
    /\ parsed = << >>
    /\ entry = None
    /\ entry_dict = << >>
    /\ entry_parsed = None
    /\ LiveIdle /\ StdIdle /\ CatIdle

\* mapping[b] = md
SetItem(b, md) ==
    /\ pc = "build"
    /\ Cardinality(DOMAIN mapping \cup {b}) <= MaxEntries
    /\ mapping' = SetItemOf(mapping, b, md)
    /\ UNCHANGED <<mask, pc, arg, ret, wire, doc, parsed, entry, entry_dict, entry_parsed, liveVars, stdVars, catVars>>

\* mask = mapping.resolve_selection()
ResolveSelection ==
    /\ pc \in {"build", "got"}
    /\ mask' = resolve_selection(mapping)
    /\ mapping' = SelfAfterResolve(mapping)
    /\ calls' = CallsOfResolve(mapping)
    /\ pc' = IF pc = "build" THEN "resolved" ELSE "resolved_again"
    /\ UNCHANGED <<arg, ret, wire, doc, parsed, entry, entry_dict, entry_parsed,
                   mapping0, mask0, stdVars, catVars>>

Next ==
    \/ pc = "build" /\ \E b \in Breadcrumbs : \E md \in RecordsAt(b) : SetItem(b, md)
    \/ ResolveSelection

Spec == Init /\ [][Next]_vars

----------------------------------------------------------------------------
(* Specification SpecMask: a SelectionMask is filled, then looked up *)

InitMask ==
    /\ mapping = << >>
    /\ mask = << >>
    /\ pc = "mask"
    /\ arg = << >>
    /\ ret = None
    /\ wire = << >>
    /\ doc = << >>
    /\ parsed = << >>
    /\ entry = None
    /\ entry_dict = << >>
    /\ entry_parsed = None
    /\ LiveIdle /\ StdIdle /\ CatIdle

\* mask[b] = v
MaskSetItem(b, v) ==
    /\ pc = "mask"
    /\ mask' = SetItemOf(mask, b, v)
    /\ UNCHANGED <<mapping, pc, arg, ret, wire, doc, parsed, entry, entry_dict, entry_parsed, liveVars, stdVars, catVars>>

\* ret = mask[b]
MaskGetItem(b) ==
    /\ pc = "mask"
    /\ arg' = b
    /\ ret' = Some(SelectionMask_getitem(mask, b))
    /\ pc' = "looked"
    /\ UNCHANGED <<mapping, mask, wire, doc, parsed, entry, entry_dict, entry_parsed, liveVars, stdVars, catVars>>

NextMask ==
    \/ \E b \in Breadcrumbs : \E v \in BOOLEAN : MaskSetItem(b, v)
    \/ \E b \in LookupBreadcrumbs : MaskGetItem(b)

SpecMask == InitMask /\ [][NextMask]_vars

----------------------------------------------------------------------------
(* Specification SpecDoc: a mapping is filled, or parsed from a received   *)
(* list, then written with to_list and read back with from_iterable        *)

\* The stream-level fields of a root record: all unset, or all set.
StreamLevelValues ==
    { [table_key_properties |-> None, forced_replication_method |-> None,
       valid_replication_keys |-> None, schema_name |-> None],
      [table_key_properties |-> Some(<<"id">>),
       forced_replication_method |-> Some("INCREMENTAL"),
       valid_replication_keys |-> Some(<<"updated_at">>),
       schema_name |-> Some("public")] }

\* Stream records with every combination of the three selection fields.
StreamRecords ==
    {[f \in StreamMetadataFields |->
        IF f \in MetadataFields THEN r[f] ELSE x[f]] :
            r \in FieldRecords, x \in StreamLevelValues}

\* The breadcrumbs of the mappings that are written and read: the root and
\* the top-level properties.
DocBreadcrumbs == {b \in Breadcrumbs : Len(b) <= 2}

DocRecordsAt(b) == IF b = << >> THEN StreamRecords ELSE FieldRecords

\* dataclasses.fields of the class from_iterable uses at breadcrumb b.
FieldsAt(b) == IF b = << >> THEN StreamMetadataFields ELSE MetadataFields

\* A metadata key of the wire that no record class has a field for.
UnknownKey == "view-key-properties"

\* The metadata dictionaries received for breadcrumb b: written forms of
\* records, with and without the unknown key.
WireMetadataAt(b) ==
    LET known == {to_dict(r) : r \in {x \in DocRecordsAt(b) :
                        /\ x.selected_by_default = None
                        /\ x.inclusion \in {None, Some("available")}}}
    IN  known \cup {SetItemOf(d, UnknownKey, Some(<<"id">>)) : d \in known}

WireItems ==
    UNION {{[breadcrumb |-> ListOf(b), metadata |-> d] : d \in WireMetadataAt(b)} :
                b \in DocBreadcrumbs}

\* The lists received from outside: up to MaxEntries items.
WireLists == UNION {[1..n -> WireItems] : n \in 0..MaxEntries}

\* mapping = MetadataMapping.from_iterable(d), for a list d received from
\* outside by a program that has built nothing yet
FromIterableWire ==
    /\ pc = "build"
    /\ mapping = << >>
    /\ \E d \in WireLists :
        /\ wire' = d
        /\ mapping' = from_iterable(d)
    /\ pc' = "loaded"
    /\ UNCHANGED <<mask, arg, ret, doc, parsed, entry, entry_dict, entry_parsed, liveVars, stdVars, catVars>>

\* doc = mapping.to_list()
ToList(order) ==
    /\ pc \in {"build", "loaded"}
    /\ doc' = to_list(mapping, order)
    /\ pc' = "listed"
    /\ UNCHANGED <<mapping, mask, arg, ret, wire, parsed, entry, entry_dict, entry_parsed, liveVars, stdVars, catVars>>

\* parsed = MetadataMapping.from_iterable(doc)
FromIterable ==
    /\ pc = "listed"
    /\ parsed' = from_iterable(doc)
    /\ pc' = "parsed"
    /\ UNCHANGED <<mapping, mask, arg, ret, wire, doc, entry, entry_dict, entry_parsed, liveVars, stdVars, catVars>>

NextDoc ==
    \/ pc = "build" /\ \E b \in DocBreadcrumbs : \E md \in DocRecordsAt(b) : SetItem(b, md)
    \/ FromIterableWire
    \/ pc \in {"build", "loaded"} /\ \E order \in Orders(DOMAIN mapping) : ToList(order)
    \/ FromIterable

SpecDoc == Init /\ [][NextDoc]_vars

----------------------------------------------------------------------------
(* CatalogEntry *)

\* dict.get(key, default) of a key whose value, when present, is not None.
DictGetOr(value, key, default) ==
    IF key \in DOMAIN value THEN value[key][1] ELSE default

\* SchemaPlus.from_dict and SchemaPlus.to_dict: the schema document is kept
\* in the object and given back.
SchemaPlus_from_dict(data) == [schema |-> data]

SchemaPlus_to_dict(self) == self.schema

\* The key under which the exchange document carries a field of the entry.
WireName(field) ==
    CASE field = "database" -> "database_name"
      [] field = "table" -> "table_name"
      [] OTHER -> field

\* The fields of the entry that the base class writes as they are.
PlainEntryFields ==
    {"tap_stream_id", "stream", "key_properties", "replication_key", "is_view",
     "database", "table", "row_count", "stream_alias", "replication_method"}

\* singer.catalog.CatalogEntry.to_dict: the inverse of parsing, every field
\* that is set under the key from_dict reads it from, the schema as its
\* document.
BaseCatalogEntry_to_dict(self) ==
    LET present == {f \in PlainEntryFields : self[f] # None}
    IN  [k \in {WireName(f) : f \in present} \cup {"schema"} |->
            IF k = "schema"
            THEN Some(SchemaPlus_to_dict(self.schema))
            ELSE self[CHOOSE f \in present : WireName(f) = k]]

\* CatalogEntry.to_dict: the base dictionary, with the metadata as a list
\* (the items of the mapping taken in the given order).
CatalogEntry_to_dict(self, order) ==
    SetItemOf(BaseCatalogEntry_to_dict(self), "metadata",
              Some(to_list(self.metadata, order)))

\* CatalogEntry.from_dict.  row_count is not among the arguments and keeps
\* the default of the dataclass, None.
CatalogEntry_from_dict(stream) ==
    [ tap_stream_id |-> stream["tap_stream_id"],
      stream |-> DictGet(stream, "stream"),
      replication_key |-> DictGet(stream, "replication_key"),
      key_properties |-> DictGet(stream, "key_properties"),
      database |-> DictGet(stream, "database_name"),
      table |-> DictGet(stream, "table_name"),
      schema |-> SchemaPlus_from_dict(DictGetOr(stream, "schema", << >>)),
      is_view |-> DictGet(stream, "is_view"),
      stream_alias |-> DictGet(stream, "stream_alias"),
      metadata |-> from_iterable(DictGetOr(stream, "metadata", << >>)),
      replication_method |-> DictGet(stream, "replication_method"),
      row_count |-> None ]

----------------------------------------------------------------------------
(* Specification SpecEntry: a catalog entry is constructed, written with   *)
(* to_dict and read back with from_dict                                    *)

\* Schema documents: without and with a properties listing.
SchemaDocs ==
    { [type |-> "object"],
      [type |-> "object", properties |-> [id |-> [type |-> "integer"]]] }

\* Metadata mappings of the entries: empty, a root, a root and a property.
EntryMetadata ==
    LET root == [StreamMetadata EXCEPT !.selected = Some(TRUE),
                                        !.table_key_properties = Some(<<"id">>)]
        prop == [Metadata EXCEPT !.inclusion = Some("automatic")]
    IN  { << >>,
          SetItemOf(<< >>, << >>, root),
          SetItemOf(SetItemOf(<< >>, << >>, root), <<"properties", "id">>, prop) }

\* The entries that are constructed: every optional argument given or not.
Entries ==
    [ tap_stream_id : {Some("users")},
      metadata : EntryMetadata,
      schema : {SchemaPlus_from_dict(d) : d \in SchemaDocs},
      stream : {None, Some("users")},
      key_properties : {None, Some(<<"id">>)},
      replication_key : {None, Some("updated_at")},
      is_view : {None, Some(FALSE)},
      database : {None, Some("db")},
      table : {None, Some("users")},
      row_count : {None, Some(5)},
      stream_alias : {None, Some("people")},
      replication_method : {None, Some("INCREMENTAL")} ]

InitEntry ==
    /\ mapping = << >>
    /\ mask = << >>
    /\ pc = "start"
    /\ arg = << >>
    /\ ret = None
    /\ wire = << >>
    /\ doc = << >>
    /\ parsed = << >>
    /\ entry = None
    /\ entry_dict = << >>
    /\ entry_parsed = None
    /\ LiveIdle /\ StdIdle /\ CatIdle

\* entry = CatalogEntry(...)
NewEntry(e) ==
    /\ pc = "start"
    /\ entry' = e
    /\ pc' = "constructed"
    /\ UNCHANGED <<mapping, mask, arg, ret, wire, doc, parsed, entry_dict, entry_parsed, liveVars, stdVars, catVars>>

\* entry_dict = entry.to_dict()
EntryToDict(order) ==
    /\ pc = "constructed"
    /\ entry_dict' = CatalogEntry_to_dict(entry, order)
    /\ pc' = "written"
    /\ UNCHANGED <<mapping, mask, arg, ret, wire, doc, parsed, entry, entry_parsed, liveVars, stdVars, catVars>>

\* entry_parsed = CatalogEntry.from_dict(entry_dict)
EntryFromDict ==
    /\ pc = "written"
    /\ entry_parsed' = CatalogEntry_from_dict(entry_dict)
    /\ pc' = "read"
    /\ UNCHANGED <<mapping, mask, arg, ret, wire, doc, parsed, entry, entry_dict, liveVars, stdVars, catVars>>

NextEntry ==
    \/ \E e \in Entries : NewEntry(e)
    \/ pc = "constructed" /\ \E order \in Orders(DOMAIN entry.metadata) : EntryToDict(order)
    \/ EntryFromDict

SpecEntry == InitEntry /\ [][NextEntry]_vars

----------------------------------------------------------------------------
(* Selection resolution: claims C1 to C6 *)

\* The entries of the mapping once it has been resolved into mask.
Resolved(b) == pc = "resolved" /\ b \in DOMAIN mapping

\* The parent of b is found selected: b is the root, or the mapping has a root
\* entry and the mask lookup of b's parent yields True.
ParentSelected(b) ==
    \/ b = << >>
    \/ /\ << >> \in DOMAIN mapping
       /\ SelectionMask_getitem(mask, Parent(b)) = TRUE

\* C1: downward monotonicity.  In the mask of resolve_selection(M), whenever
\* the lookup of parent(b) yields False, the lookup of the non-root breadcrumb
\* b yields False, whatever b's own record says and whether or not b or its
\* parent has an entry in M.
C1_DownwardMonotonic ==
    pc = "resolved" =>
        \A b \in LookupBreadcrumbs \ {<< >>} :
            SelectionMask_getitem(mask, Parent(b)) = FALSE
                => SelectionMask_getitem(mask, b) = FALSE

\* C1 witness: the root has selected=False, a child has selected=True and no
\* inclusion, and the child resolved to False.
C1_Witness ==
    /\ Resolved(<< >>)
    /\ mapping[<< >>].selected = Some(FALSE)
    /\ \E b \in DOMAIN mapping :
        /\ Len(b) = 2
        /\ mapping[b].selected = Some(TRUE)
        /\ mapping[b].inclusion = None
        /\ mask[b] = FALSE
        /\ mask[<< >>] = FALSE

\* C2 as stated: every entry with inclusion automatic resolves to True.
C2_AutomaticAlwaysSelected ==
    \A b \in DOMAIN mapping :
        (Resolved(b) /\ mapping[b].inclusion = Some("automatic")) => mask[b] = TRUE

\* C2 amended: an entry with inclusion automatic whose parent is found
\* selected (or which is the root) resolves to True, whatever its selected
\* value is.
C2_AutomaticSelectedUnderSelectedParent ==
    \A b \in DOMAIN mapping :
        (Resolved(b) /\ mapping[b].inclusion = Some("automatic") /\ ParentSelected(b))
            => mask[b] = TRUE

\* C2 witness: a non-root entry with inclusion automatic and selected=False
\* under a selected parent resolved to True.
C2_Witness ==
    \E b \in DOMAIN mapping :
        /\ Resolved(b)
        /\ b # << >>
        /\ ParentSelected(b)
        /\ mapping[b].inclusion = Some("automatic")
        /\ mapping[b].selected = Some(FALSE)
        /\ mask[b] = TRUE

\* C3: every entry with inclusion unsupported resolves to False, whatever its
\* selected and selected_by_default values are.
C3_UnsupportedNeverSelected ==
    \A b \in DOMAIN mapping :
        (Resolved(b) /\ mapping[b].inclusion = Some("unsupported")) => mask[b] = FALSE

\* C3 witness: an entry with inclusion unsupported and selected=True, under a
\* selected parent, resolved to False.
C3_Witness ==
    \E b \in DOMAIN mapping :
        /\ Resolved(b)
        /\ b # << >>
        /\ ParentSelected(b)
        /\ mapping[b].inclusion = Some("unsupported")
        /\ mapping[b].selected = Some(TRUE)
        /\ mapping[b].selected_by_default = Some(TRUE)
        /\ mask[b] = FALSE

\* C4: the mask resolved from an empty mapping yields True for every
\* breadcrumb that is looked up, root or not.
C4_EmptyMappingSelectsAll ==
    (pc = "resolved" /\ DOMAIN mapping = {}) =>
        \A b \in LookupBreadcrumbs : SelectionMask_getitem(mask, b) = TRUE

\* C4 witness: an empty mapping has been resolved, into a mask without keys.
C4_Witness ==
    /\ pc = "resolved"
    /\ DOMAIN mapping = {}
    /\ DOMAIN mask = {}

\* What selected and selected_by_default of a record determine: selected when
\* it is set, else selected_by_default when that is set.
ExplicitOrDefault(md, value) ==
    /\ md.selected # None => value = md.selected[1]
    /\ (md.selected = None /\ md.selected_by_default # None)
            => value = md.selected_by_default[1]

\* C5 as stated: an entry whose inclusion is neither unsupported nor
\* automatic, and whose parent yields True in the mask (or which is the root),
\* resolves to its selected value, else to its selected_by_default value.
C5_ExplicitOverDefault ==
    \A b \in DOMAIN mapping :
        ( /\ Resolved(b)
          /\ mapping[b].inclusion \notin {Some("unsupported"), Some("automatic")}
          /\ (b = << >> \/ SelectionMask_getitem(mask, Parent(b)) = TRUE) )
            => ExplicitOrDefault(mapping[b], mask[b])

\* C5 amended: the same, for a mapping that has a root entry.
C5_ExplicitOverDefaultUnderRoot ==
    \A b \in DOMAIN mapping :
        ( /\ Resolved(b)
          /\ mapping[b].inclusion \notin {Some("unsupported"), Some("automatic")}
          /\ ParentSelected(b) )
            => ExplicitOrDefault(mapping[b], mask[b])

\* C5 witness: a non-root entry with selected=False and
\* selected_by_default=True under a selected parent resolved to False.
C5_Witness ==
    \E b \in DOMAIN mapping :
        /\ Resolved(b)
        /\ b # << >>
        /\ ParentSelected(b)
        /\ mapping[b].inclusion = Some("available")
        /\ mapping[b].selected = Some(FALSE)
        /\ mapping[b].selected_by_default = Some(TRUE)
        /\ mask[b] = FALSE

\* A record that says nothing about selection: inclusion available or unset,
\* selected and selected_by_default unset.
NoDetermination(md) ==
    /\ md.inclusion \in {None, Some("available")}
    /\ md.selected = None
    /\ md.selected_by_default = None

\* C6 as stated: an entry without determination resolves, when it is not the
\* root, to the value its parent yields in the mask, and to False when it is
\* the root.
C6_Inheritance ==
    \A b \in DOMAIN mapping :
        (Resolved(b) /\ NoDetermination(mapping[b]))
            => mask[b] = IF b = << >> THEN FALSE
                         ELSE SelectionMask_getitem(mask, Parent(b))

\* C6 amended: the same, for a mapping that has a root entry.
C6_InheritanceUnderRoot ==
    \A b \in DOMAIN mapping :
        (Resolved(b) /\ NoDetermination(mapping[b]) /\ << >> \in DOMAIN mapping)
            => mask[b] = IF b = << >> THEN FALSE
                         ELSE SelectionMask_getitem(mask, Parent(b))

\* C6 witness: a non-root entry with inclusion available and nothing else,
\* under a parent that resolved to True, resolved to True.
C6_Witness ==
    \E b \in DOMAIN mapping :
        /\ Resolved(b)
        /\ b # << >>
        /\ << >> \in DOMAIN mapping
        /\ mapping[b].inclusion = Some("available")
        /\ NoDetermination(mapping[b])
        /\ SelectionMask_getitem(mask, Parent(b)) = TRUE
        /\ mask[b] = TRUE

----------------------------------------------------------------------------
(* SelectionMask lookup: claim C7 *)

\* The proper ancestors of b: b without its last 2, 4, ... segments.
Ancestors(b) == {SubSeq(b, 1, Len(b) - 2 * k) : k \in 1..(Len(b) \div 2)}

\* The value of the nearest ancestor of b that is a key of m, True when no
\* ancestor is a key.
NearestAncestorValue(m, b) ==
    LET present == Ancestors(b) \cap DOMAIN m
    IN  IF present = {} THEN TRUE
        ELSE m[CHOOSE a \in present : \A a2 \in present : Len(a2) <= Len(a)]

\* C7: the lookup of a breadcrumb that is no key of the mask returns the value
\* of its nearest ancestor that is a key, and True when no ancestor is a key
\* (so also for the root).
C7_MissingFallsBackToAncestor ==
    (pc = "looked" /\ arg \notin DOMAIN mask) => ret = Some(NearestAncestorValue(mask, arg))

\* C7 witness: a breadcrumb two levels below the root was looked up in a mask
\* that holds only the root, with False, and the lookup returned False.
C7_Witness ==
    /\ pc = "looked"
    /\ Len(arg) = 4
    /\ DOMAIN mask = {<< >>}
    /\ mask[<< >>] = FALSE
    /\ ret = Some(FALSE)

----------------------------------------------------------------------------
(* Dictionary forms: claims C8 and C10 *)

\* C8: metadata round trip.  The mapping read back with from_iterable from
\* the to_list() of a mapping has the same breadcrumbs as that mapping and,
\* for each breadcrumb, the same value of every field, unset fields staying
\* unset and False staying False.
C8_MetadataRoundTrip ==
    pc = "parsed" =>
        /\ DOMAIN parsed = DOMAIN mapping
        /\ \A b \in DOMAIN mapping :
            /\ DOMAIN parsed[b] = DOMAIN mapping[b]
            /\ \A f \in DOMAIN mapping[b] : parsed[b][f] = mapping[b][f]

\* C8 witness: a root with selected=False, selected_by_default unset and its
\* stream-level fields set, and a property with selected unset and
\* selected_by_default=False, were written and read back alike.
C8_Witness ==
    /\ pc = "parsed"
    /\ DOMAIN mapping = {<< >>, <<"properties", "id">>}
    /\ mapping[<< >>].selected = Some(FALSE)
    /\ mapping[<< >>].selected_by_default = None
    /\ mapping[<< >>].table_key_properties = Some(<<"id">>)
    /\ mapping[<<"properties", "id">>].selected = None
    /\ mapping[<<"properties", "id">>].selected_by_default = Some(FALSE)
    /\ "selected-by-default" \in DOMAIN doc[1].metadata \cup DOMAIN doc[2].metadata
    /\ parsed = mapping

\* The item of the received list is the last one for its breadcrumb.
LastInWire(i) ==
    \A j \in DOMAIN wire : j > i => wire[j].breadcrumb # wire[i].breadcrumb

\* C10: every key of a received metadata dictionary that the record class of
\* its breadcrumb has no field for is, with its value, in the metadata that
\* to_list() writes for that breadcrumb after the list was parsed.
C10_UnknownKeysSurvive ==
    pc = "listed" =>
        \A i \in DOMAIN wire :
            LastInWire(i) =>
                \A k \in DOMAIN wire[i].metadata \ {Hyphenated(f) : f \in FieldsAt(TupleOf(wire[i].breadcrumb))} :
                    \E j \in DOMAIN doc :
                        /\ doc[j].breadcrumb = wire[i].breadcrumb
                        /\ k \in DOMAIN doc[j].metadata
                        /\ doc[j].metadata[k] = wire[i].metadata[k]

----------------------------------------------------------------------------
(* CatalogEntry: claim C9 *)

\* C9: catalog-entry round trip.  The entry read back with from_dict from the
\* to_dict() of an entry has the same tap_stream_id, schema, sync parameters
\* (stream, key_properties, replication_key, replication_method, is_view,
\* database, table, row_count, stream_alias) and metadata as that entry.
C9_EntryRoundTrip ==
    pc = "read" => \A f \in DOMAIN entry : entry_parsed[f] = entry[f]

\* What does hold of the round trip: every field but row_count comes back.
EntryRoundTripButRowCount ==
    pc = "read" =>
        /\ DOMAIN entry_parsed = DOMAIN entry
        /\ \A f \in DOMAIN entry \ {"row_count"} : entry_parsed[f] = entry[f]
        /\ entry_parsed.row_count = None

----------------------------------------------------------------------------
(* Specification SpecLookup: a mapping is filled and resolved, then a      *)
(* breadcrumb is looked up with mapping[b] or mapping.root, then the       *)
(* mapping is resolved again                                               *)

\* The records the entries are given here: selected_by_default left unset.
LookupRecordsAt(b) == {md \in RecordsAt(b) : md.selected_by_default = None}

\* mapping[b]
GetItem(b) ==
    /\ pc = "resolved"
    /\ LET got == MetadataMapping_getitem(mapping, b)
       IN  /\ mapping' = got.self
           /\ ret' = Some(got.ret)
    /\ arg' = b
    /\ mapping0' = mapping
    /\ mask0' = mask
    /\ pc' = "got"
    /\ UNCHANGED <<mask, wire, doc, parsed, entry, entry_dict, entry_parsed,
                   calls, stdVars, catVars>>

\* mapping.root
Root ==
    /\ pc = "resolved"
    /\ LET got == MetadataMapping_root(mapping)
       IN  /\ mapping' = got.self
           /\ ret' = Some(got.ret)
    /\ arg' = << >>
    /\ mapping0' = mapping
    /\ mask0' = mask
    /\ pc' = "got"
    /\ UNCHANGED <<mask, wire, doc, parsed, entry, entry_dict, entry_parsed,
                   calls, stdVars, catVars>>

NextLookup ==
    \/ pc = "build" /\ \E b \in Breadcrumbs : \E md \in LookupRecordsAt(b) : SetItem(b, md)
    \/ ResolveSelection
    \/ pc = "resolved" /\ \E b \in LookupBreadcrumbs : GetItem(b)
    \/ Root

SpecLookup == Init /\ [][NextLookup]_vars

----------------------------------------------------------------------------
(* MetadataMapping lookups: claims C12, C17, C18, C19 *)

\* C12: missing-key policy of the metadata mapping.  A lookup mapping[b], or
\* mapping.root for the empty breadcrumb, returns a record; when b had no
\* entry the record has every field unset and is a stream-level record for
\* the empty breadcrumb and a field-level record otherwise; and a later
\* lookup of b returns that same record.
C12_MissingKeyPolicy ==
    pc = "got" =>
        /\ ret # None
        /\ arg \notin DOMAIN mapping0 =>
            /\ DOMAIN ret[1] = IF arg = << >> THEN StreamMetadataFields ELSE MetadataFields
            /\ \A f \in DOMAIN ret[1] : ret[1][f] = None
        /\ MetadataMapping_getitem(mapping, arg).ret = ret[1]
        /\ MetadataMapping_root(mapping).ret = MetadataMapping_getitem(mapping, << >>).ret

\* A root that has no entry is read from a mapping that has other entries.
C12_Witness ==
    /\ pc = "got"
    /\ arg = << >>
    /\ << >> \notin DOMAIN mapping0
    /\ DOMAIN mapping0 # {}
    /\ ret = Some(StreamMetadata)


\* C17: resolve_selection does not materialize anything.  In every step that
\* is a call of resolve_selection(), the key set of the returned mask is the
\* key set the mapping had at the call, and the mapping is left with the same
\* keys and records, also when ancestors of its keys, the root among them,
\* have no entry.
C17_ResolveDoesNotMaterialize ==
    [][(pc \in {"build", "got"} /\ pc' \in {"resolved", "resolved_again"}) =>
           /\ DOMAIN mask' = DOMAIN mapping
           /\ mapping' = mapping]_vars

\* A mapping whose only entry is two levels down was resolved: neither the
\* root nor the parent of the entry has an entry.
C17_Witness ==
    /\ pc = "resolved"
    /\ \E b \in DOMAIN mapping : Len(b) = 4
    /\ \A b \in DOMAIN mapping : Len(b) = 4
    /\ DOMAIN mask = DOMAIN mapping


\* C18: within one resolve_selection() pass the intermediate results are
\* memoized.  After a pass, the selection of every breadcrumb, an ancestor
\* shared by several entries included, was computed at most once.
C18_ComputedAtMostOnce ==
    pc \in {"resolved", "resolved_again"} =>
        \A b \in DOMAIN calls : calls[b] <= 1

\* C19: a lookup of an absent breadcrumb inserts the default record as a new
\* key and so changes later resolutions.  After mapping[b] or mapping.root
\* for a breadcrumb without an entry, the mapping has that one key more, the
\* other entries being as they were; and when the mapping was empty and its
\* root was read, the mask resolved before the lookup yields true for every
\* breadcrumb and the mask resolved after it yields false for the root and
\* for every breadcrumb under it.
C19_LookupChangesResolution ==
    /\ (pc = "got" /\ arg \notin DOMAIN mapping0) =>
           /\ DOMAIN mapping = DOMAIN mapping0 \cup {arg}
           /\ mapping[arg] = ret[1]
           /\ \A b \in DOMAIN mapping0 : mapping[b] = mapping0[b]
    /\ (pc = "resolved_again" /\ mapping0 = << >> /\ arg = << >>) =>
           /\ << >> \in DOMAIN mapping
           /\ \A b \in LookupBreadcrumbs : SelectionMask_getitem(mask0, b) = TRUE
           /\ \A b \in LookupBreadcrumbs : SelectionMask_getitem(mask, b) = FALSE

\* The empty mapping was resolved, its root was read, and it was resolved
\* again.
C19_Witness ==
    /\ pc = "resolved_again"
    /\ mapping0 = << >>
    /\ mask0 = << >>
    /\ arg = << >>
    /\ DOMAIN mask = {<< >>}
    /\ mask[<< >>] = FALSE


----------------------------------------------------------------------------
(* MetadataMapping.get_standard_metadata *)

\* The property names of the schemas, and a key property that is no schema
\* property.
StdNames == {"id", "name"}

\* The schemas passed: none, the empty dictionary, a schema without a
\* properties listing, and a schema for each listing over StdNames.
StdSchemas ==
    {None, Some(<< >>), Some([type |-> Some("object")])}
    \cup {Some([properties |-> Some([n \in names |-> Some(<< >>)])]) :
              names \in SUBSET StdNames}

\* The key_properties passed: none, the empty list, and lists with a name
\* that is, and one that is not, a property of the schemas.
StdKeyProperties == {None, Some(<< >>), Some(<<"id">>), Some(<<"id", "uid">>)}

\* Faulty variant of get_standard_metadata: every property is available,
\* whatever key_properties says.
get_standard_metadata_NoAutomatic(schema, schema_name, key_properties, valid_replication_keys, replication_method) ==
    LET root == [StreamMetadata EXCEPT
                     !.table_key_properties = key_properties,
                     !.forced_replication_method = replication_method,
                     !.valid_replication_keys = valid_replication_keys]
        seed == schema # None /\ DOMAIN schema[1] # {}
        names == IF seed
                 THEN DOMAIN DictGetOr(schema[1], "properties", << >>)
                 ELSE {}
        entries == [b \in {<<"properties", n>> : n \in names} |->
                       [Metadata EXCEPT !.inclusion = Some("available")]]
    IN  SetItemOf(entries, << >>,
            IF seed
            THEN [root EXCEPT
                     !.inclusion = Some("available"),
                     !.schema_name = IF schema_name # None /\ schema_name[1] # ""
                                     THEN schema_name ELSE None]
            ELSE root)

\* MetadataMapping.get_standard_metadata.  "if schema", "if schema_name" and
\* "if key_properties" are Python truth tests: None, the empty dictionary,
\* the empty string and the empty list do not pass.
get_standard_metadata(schema, schema_name, key_properties, valid_replication_keys, replication_method) ==
    LET root == [StreamMetadata EXCEPT
                     !.table_key_properties = key_properties,
                     !.forced_replication_method = replication_method,
                     !.valid_replication_keys = valid_replication_keys]
        seed == schema # None /\ DOMAIN schema[1] # {}
        names == IF seed
                 THEN DOMAIN DictGetOr(schema[1], "properties", << >>)
                 ELSE {}
        entries == [b \in {<<"properties", n>> : n \in names} |->
                       IF /\ key_properties # None
                          /\ key_properties[1] # << >>
                          /\ \E i \in DOMAIN key_properties[1] : key_properties[1][i] = b[2]
                       THEN [Metadata EXCEPT !.inclusion = Some("automatic")]
                       ELSE [Metadata EXCEPT !.inclusion = Some("available")]]
    IN  SetItemOf(entries, << >>,
            IF seed
            THEN [root EXCEPT
                     !.inclusion = Some("available"),
                     !.schema_name = IF schema_name # None /\ schema_name[1] # ""
                                     THEN schema_name ELSE None]
            ELSE root)

----------------------------------------------------------------------------
(* Specification SpecStd: get_standard_metadata is called once *)

InitStd ==
    /\ mapping = << >>
    /\ mask = << >>
    /\ pc = "seed"
    /\ arg = << >>
    /\ ret = None
    /\ wire = << >>
    /\ doc = << >>
    /\ parsed = << >>
    /\ entry = None
    /\ entry_dict = << >>
    /\ entry_parsed = None
    /\ LiveIdle /\ StdIdle /\ CatIdle

\* mapping = MetadataMapping.get_standard_metadata(schema, schema_name,
\*     key_properties, valid_replication_keys, replication_method)
GetStandardMetadata(schema, schema_name, key_properties, valid_replication_keys, replication_method) ==
    /\ pc = "seed"
    /\ mapping' = get_standard_metadata(schema, schema_name, key_properties,
                      valid_replication_keys, replication_method)
    /\ args' = [schema |-> schema, schema_name |-> schema_name,
                key_properties |-> key_properties,
                valid_replication_keys |-> valid_replication_keys,
                replication_method |-> replication_method]
    /\ pc' = "seeded"
    /\ UNCHANGED <<mask, arg, ret, wire, doc, parsed, entry, entry_dict, entry_parsed,
                   liveVars, catVars>>

\* root = mapping.root
StdRoot ==
    /\ pc = "seeded"
    /\ LET got == MetadataMapping_root(mapping)
       IN  /\ mapping' = got.self
           /\ ret' = Some(got.ret)
    /\ arg' = << >>
    /\ pc' = "read"
    /\ UNCHANGED <<mask, wire, doc, parsed, entry, entry_dict, entry_parsed,
                   liveVars, stdVars, catVars>>

NextStd ==
    \/ pc = "seed" /\
        \E schema \in StdSchemas, schema_name \in {None, Some("public")},
           key_properties \in StdKeyProperties,
           valid_replication_keys \in {None, Some(<<"updated_at">>)},
           replication_method \in {None, Some("INCREMENTAL")} :
            GetStandardMetadata(schema, schema_name, key_properties,
                                valid_replication_keys, replication_method)
    \/ StdRoot

SpecStd == InitStd /\ [][NextStd]_vars

----------------------------------------------------------------------------
(* get_standard_metadata: claims C13, C14 *)

\* The properties listing of the schema passed: schema.get("properties", {}).
StdListing == DictGetOr(args.schema[1], "properties", << >>)

\* What C13 says of the mapping returned for the schema passed.
StdSeeded ==
    /\ DOMAIN mapping = {<< >>} \cup {<<"properties", n>> : n \in DOMAIN StdListing}
    /\ mapping[<< >>].inclusion = Some("available")
    /\ \A n \in DOMAIN StdListing :
           mapping[<<"properties", n>>].inclusion =
               IF /\ args.key_properties # None
                  /\ \E i \in DOMAIN args.key_properties[1] : args.key_properties[1][i] = n
               THEN Some("automatic")
               ELSE Some("available")

\* C13 as stated: get_standard_metadata seeding.  When a schema is supplied,
\* the mapping returned has exactly the keys () and ("properties", name) for
\* the names of the schema's properties listing (none when it has no
\* listing), its root has inclusion available, and each property entry has
\* inclusion automatic if its name is among key_properties and available
\* otherwise.
C13_SeedingWhenSupplied ==
    (pc = "seeded" /\ args.schema # None) => StdSeeded

\* C13, amended: the same, when the schema supplied is not the empty
\* dictionary.
C13_SeedingWhenNonEmpty ==
    (pc = "seeded" /\ args.schema # None /\ DOMAIN args.schema[1] # {}) => StdSeeded

\* A schema with the properties id and name was passed with key_properties
\* ["id", "uid"]: id is automatic, name is available, uid has no entry.
C13_Witness ==
    /\ pc = "seeded"
    /\ args.schema # None
    /\ DOMAIN StdListing = {"id", "name"}
    /\ args.key_properties = Some(<<"id", "uid">>)
    /\ DOMAIN mapping = {<< >>, <<"properties", "id">>, <<"properties", "name">>}
    /\ mapping[<<"properties", "id">>].inclusion = Some("automatic")
    /\ mapping[<<"properties", "name">>].inclusion = Some("available")

\* C14: the root record built by get_standard_metadata gets the supplied
\* sync parameters.  For every combination of arguments, with or without a
\* schema, the root's table_key_properties, forced_replication_method,
\* valid_replication_keys and schema_name are the key_properties,
\* replication_method, valid_replication_keys and schema_name passed.
C14_RootGetsSyncParameters ==
    pc = "seeded" =>
        /\ mapping[<< >>].table_key_properties = args.key_properties
        /\ mapping[<< >>].forced_replication_method = args.replication_method
        /\ mapping[<< >>].valid_replication_keys = args.valid_replication_keys
        /\ mapping[<< >>].schema_name = args.schema_name

\* What does hold of the root: the three parameters passed to the
\* constructor are there for every combination of arguments, and schema_name
\* is there when a non-empty schema is passed.
RootGetsSyncParametersButSchemaName ==
    pc = "seeded" =>
        /\ mapping[<< >>].table_key_properties = args.key_properties
        /\ mapping[<< >>].forced_replication_method = args.replication_method
        /\ mapping[<< >>].valid_replication_keys = args.valid_replication_keys
        /\ mapping[<< >>].schema_name =
               IF args.schema # None /\ DOMAIN args.schema[1] # {}
               THEN args.schema_name
               ELSE None


----------------------------------------------------------------------------
(* Catalog *)

\* How a call ends: with a value returned, or with an exception raised.
Returned(v) == [raised |-> None, value |-> Some(v)]

Raised(exception) == [raised |-> Some(exception), value |-> None]

\* CatalogEntry.from_dict as a call: stream["tap_stream_id"] raises KeyError
\* when the key is absent, and nothing else in the function raises.
CatalogEntry_from_dict_call(stream) ==
    IF "tap_stream_id" \in DOMAIN stream
    THEN Returned(CatalogEntry_from_dict(stream))
    ELSE Raised("KeyError")

\* Faulty variant of Catalog_add_stream: an entry whose id the catalog has
\* already is not stored.
Catalog_add_stream_KeepFirst(self, new_entry) ==
    IF new_entry.tap_stream_id \in DOMAIN self
    THEN self
    ELSE SetItemOf(self, new_entry.tap_stream_id, new_entry)

\* Catalog.add_stream, and the store of Catalog.from_dict:
\* self[entry.tap_stream_id] = entry
Catalog_add_stream(self, new_entry) ==
    SetItemOf(self, new_entry.tap_stream_id, new_entry)

\* Catalog.get_stream: self.get(stream_id)
Catalog_get_stream(self, stream_id) ==
    IF stream_id \in DOMAIN self THEN Some(self[stream_id]) ELSE None

\* The loop of Catalog.from_dict from the i-th stream on; the exception of
\* CatalogEntry.from_dict is not caught.
RECURSIVE Catalog_from_dict_from(_, _, _)
Catalog_from_dict_from(instance, streams, i) ==
    IF i > Len(streams)
    THEN Returned(instance)
    ELSE LET parsed_entry == CatalogEntry_from_dict_call(streams[i])
         IN  IF parsed_entry.raised # None
             THEN parsed_entry
             ELSE Catalog_from_dict_from(
                      Catalog_add_stream(instance, parsed_entry.value[1]),
                      streams, i + 1)

\* Catalog.from_dict as a call
Catalog_from_dict_call(data) ==
    Catalog_from_dict_from(<< >>, DictGetOr(data, "streams", << >>), 1)

----------------------------------------------------------------------------
(* Specification SpecCatalog: a catalog document or a single stream        *)
(* document is parsed; streams are added to the catalog; a stream is       *)
(* looked up                                                               *)

\* Most streams in a catalog document.
MaxStreams == 2

\* Most entries parsed and added, together.
MaxOps == 3

\* The sync parameters of a stream document: none given; key_properties and
\* replication_method given and replication_key null; all three given.
CatSyncParameters ==
    { << >>,
      [key_properties |-> Some(<<"id">>), replication_method |-> Some("FULL_TABLE"),
       replication_key |-> None],
      [key_properties |-> Some(<<"id">>), replication_method |-> Some("INCREMENTAL"),
       replication_key |-> Some("updated_at")] }

\* The tap_stream_id of a stream document: a string, or JSON null, which is
\* not a string.
CatIds == {Some("users"), Some("orders"), None}

\* Stream documents: with a tap_stream_id and without one.
CatStreamDocs ==
    CatSyncParameters
    \cup {SetItemOf(p, "tap_stream_id", id) : p \in CatSyncParameters, id \in CatIds}

\* A stream document is malformed when its tap_stream_id is absent or is not
\* a string.
Malformed(stream) ==
    "tap_stream_id" \notin DOMAIN stream \/ stream["tap_stream_id"] = None

\* Lists of stream documents, up to n long.
RECURSIVE CatStreamLists(_)
CatStreamLists(n) ==
    IF n = 0
    THEN {<< >>}
    ELSE LET shorter == CatStreamLists(n - 1)
         IN  shorter \cup {Append(l, d) : l \in {s \in shorter : Len(s) = n - 1},
                                          d \in CatStreamDocs}

\* Catalog documents: without a streams key, and with each list of streams.
CatDocs == {<< >>} \cup {[streams |-> Some(l)] : l \in CatStreamLists(MaxStreams)}

\* The entries given to add_stream.
CatEntries == {CatalogEntry_from_dict(d) : d \in {s \in CatStreamDocs : ~Malformed(s)}}

\* The stream ids looked up.
CatLookupIds == {Some("users"), Some("orders"), Some("issues")}

\* What a list of stream documents adds to the log, in order.
ParsedLog(streams) ==
    [i \in DOMAIN streams |->
        [id |-> streams[i]["tap_stream_id"], added |-> None, doc |-> Some(streams[i])]]

InitCatalog ==
    /\ mapping = << >>
    /\ mask = << >>
    /\ pc = "new"
    /\ arg = << >>
    /\ ret = None
    /\ wire = << >>
    /\ doc = << >>
    /\ parsed = << >>
    /\ entry = None
    /\ entry_dict = << >>
    /\ entry_parsed = None
    /\ LiveIdle /\ StdIdle /\ CatIdle

\* CatalogEntry.from_dict(stream), outside a catalog
ParseEntry(stream) ==
    /\ pc = "new"
    /\ cat_wire' = stream
    /\ ret' = CatalogEntry_from_dict_call(stream)
    /\ pc' = "entry"
    /\ UNCHANGED <<mapping, mask, arg, wire, doc, parsed, entry, entry_dict, entry_parsed,
                   liveVars, stdVars, catalog, log, cat_dict, catalog2, masks>>

\* catalog = Catalog.from_dict(data)
CatalogFromDict(data) ==
    /\ pc = "new"
    /\ cat_wire' = data
    /\ LET call == Catalog_from_dict_call(data)
       IN  /\ ret' = call
           /\ IF call.raised = None
              THEN /\ catalog' = call.value[1]
                   /\ log' = ParsedLog(DictGetOr(data, "streams", << >>))
                   /\ pc' = "catalog"
              ELSE /\ UNCHANGED <<catalog, log>>
                   /\ pc' = "failed"
    /\ UNCHANGED <<mapping, mask, arg, wire, doc, parsed, entry, entry_dict, entry_parsed,
                   liveVars, stdVars, cat_dict, catalog2, masks>>

\* catalog.add_stream(e)
AddStream(e) ==
    /\ pc = "catalog"
    /\ Len(log) < MaxOps
    /\ catalog' = Catalog_add_stream(catalog, e)
    /\ log' = Append(log, [id |-> e.tap_stream_id, added |-> Some(e), doc |-> None])
    /\ UNCHANGED <<mapping, mask, pc, arg, ret, wire, doc, parsed, entry, entry_dict,
                   entry_parsed, liveVars, stdVars, cat_wire, cat_dict, catalog2, masks>>

\* catalog.get_stream(stream_id)
GetStream(stream_id) ==
    /\ pc = "catalog"
    /\ arg' = stream_id
    /\ ret' = Returned(Catalog_get_stream(catalog, stream_id))
    /\ pc' = "looked"
    /\ UNCHANGED <<mapping, mask, wire, doc, parsed, entry, entry_dict, entry_parsed,
                   liveVars, stdVars, catVars>>

NextCatalog ==
    \/ pc = "new" /\ \E stream \in CatStreamDocs : ParseEntry(stream)
    \/ pc = "new" /\ \E data \in CatDocs : CatalogFromDict(data)
    \/ pc = "catalog" /\ \E e \in CatEntries : AddStream(e)
    \/ pc = "catalog" /\ \E stream_id \in CatLookupIds : GetStream(stream_id)

SpecCatalog == InitCatalog /\ [][NextCatalog]_vars

----------------------------------------------------------------------------
(* Catalog: claims C15, C16 *)

\* C15: CatalogEntry.from_dict accepts a stream document in which every
\* field other than tap_stream_id is absent, and when tap_stream_id is absent
\* or is not a string it fails with a malformed-catalog-entry error and
\* produces no entry; Catalog.from_dict of a document with such a stream
\* fails the same way and produces no catalog.
C15_MalformedEntryRejected ==
    /\ pc = "entry" =>
           IF Malformed(cat_wire)
           THEN ret = Raised("MalformedCatalogEntry")
           ELSE ret.raised = None /\ ret.value # None
    /\ pc \in {"catalog", "failed"} =>
           IF \E i \in DOMAIN DictGetOr(cat_wire, "streams", << >>) :
                  Malformed(DictGetOr(cat_wire, "streams", << >>)[i])
           THEN pc = "failed" /\ ret = Raised("MalformedCatalogEntry") /\ catalog = << >>
           ELSE pc = "catalog" /\ ret.raised = None

\* What does hold of parsing: a document with a tap_stream_id key, whatever
\* its value, is accepted, also when it has no other key; one without the
\* key ends in KeyError and produces no entry and no catalog.
EntryParsedOrKeyError ==
    /\ pc = "entry" =>
           IF "tap_stream_id" \in DOMAIN cat_wire
           THEN ret.raised = None /\ ret.value[1].tap_stream_id = cat_wire["tap_stream_id"]
           ELSE ret = Raised("KeyError")
    /\ pc = "failed" => ret = Raised("KeyError") /\ catalog = << >>

\* The last record of the log for a stream id.
LastLogged(id) ==
    log[CHOOSE i \in DOMAIN log :
            log[i].id = id /\ \A j \in DOMAIN log : j > i => log[j].id # id]

\* C16: the catalog container.  After any sequence of Catalog.from_dict and
\* add_stream, the catalog has one entry for each stream id parsed or added
\* and no other; the entry of an id is the one most recently parsed or added
\* with that id, whatever was stored for other ids before or after; an entry
\* parsed from a document carries the document's key_properties,
\* replication_method and replication_key; and get_stream of an id never
\* added returns None and leaves the catalog as it was.
C16_CatalogContainer ==
    /\ pc \in {"catalog", "looked"} =>
           /\ DOMAIN catalog = {log[i].id : i \in DOMAIN log}
           /\ \A id \in DOMAIN catalog :
                  /\ catalog[id].tap_stream_id = id
                  /\ LastLogged(id).added # None =>
                         catalog[id] = LastLogged(id).added[1]
                  /\ LastLogged(id).doc # None =>
                         /\ catalog[id].key_properties =
                                DictGet(LastLogged(id).doc[1], "key_properties")
                         /\ catalog[id].replication_method =
                                DictGet(LastLogged(id).doc[1], "replication_method")
                         /\ catalog[id].replication_key =
                                DictGet(LastLogged(id).doc[1], "replication_key")
    /\ pc = "looked" =>
           /\ ret.raised = None
           /\ ret.value[1] = IF arg \in DOMAIN catalog THEN Some(catalog[arg]) ELSE None

\* A document with two streams was parsed, an entry with the id of the first
\* was added and replaced it, and a stream never added was looked up.
C16_Witness ==
    /\ pc = "looked"
    /\ Len(log) = 3
    /\ log[1].id = log[3].id
    /\ log[2].id # log[1].id
    /\ log[1].doc # None
    /\ log[3].added # None
    /\ catalog[log[3].id] = log[3].added[1]
    /\ catalog[log[3].id].key_properties # DictGet(log[1].doc[1], "key_properties")
    /\ catalog[log[2].id].key_properties = Some(<<"id">>)
    /\ arg = Some("issues")
    /\ ret = Returned(None)


----------------------------------------------------------------------------
(* Specification SpecExchange: a catalog document is parsed, one stream is *)
(* deselected at its root, the catalog is written with to_dict and parsed  *)
(* again, and the metadata of every stream parsed again is resolved        *)

\* The root records of the documents, None for a stream without a root
\* entry.
ExchangeRoots ==
    { None,
      Some(StreamMetadata),
      Some([StreamMetadata EXCEPT !.selected = Some(TRUE)]),
      Some([StreamMetadata EXCEPT !.selected_by_default = Some(TRUE)]),
      Some([StreamMetadata EXCEPT !.inclusion = Some("automatic")]),
      Some([StreamMetadata EXCEPT !.inclusion = Some("available"),
                                  !.selected = Some(TRUE)]) }

\* The records of the property id, None for a stream without that entry.
ExchangeProperties ==
    { None,
      Some(Metadata),
      Some([Metadata EXCEPT !.selected = Some(TRUE)]),
      Some([Metadata EXCEPT !.inclusion = Some("automatic")]) }

\* The mapping with the given root and property records.
ExchangeMapping(root, property) ==
    LET rooted == IF root = None THEN << >> ELSE SetItemOf(<< >>, << >>, root[1])
    IN  IF property = None
        THEN rooted
        ELSE SetItemOf(rooted, <<"properties", "id">>, property[1])

\* The metadata lists of the documents.
ExchangeLists ==
    UNION {{to_list(ExchangeMapping(root, property), order) :
                order \in Orders(DOMAIN ExchangeMapping(root, property))} :
               root \in ExchangeRoots, property \in ExchangeProperties}

\* The stream documents with the given tap_stream_id.
ExchangeStreamDocs(id) ==
    {[tap_stream_id |-> Some(id), metadata |-> Some(l)] : l \in ExchangeLists}

\* Catalog documents: the stream users, or the streams users and orders.
ExchangeDocs ==
    {[streams |-> Some(<<u>>)] : u \in ExchangeStreamDocs("users")}
    \cup {[streams |-> Some(<<u, o>>)] :
              u \in ExchangeStreamDocs("users"), o \in ExchangeStreamDocs("orders")}

\* metadata.root.selected = False: the root record is looked up, which
\* stores a default one when there is none, and its field is assigned.
Deselected(metadata) ==
    LET got == MetadataMapping_root(metadata)
    IN  SetItemOf(got.self, << >>, [got.ret EXCEPT !.selected = Some(FALSE)])

\* singer.catalog.Catalog.to_dict: the document {"streams": [...]} with the
\* to_dict() of each entry, the entries taken in stream_order and the
\* metadata of each in breadcrumb_order.
BaseCatalog_to_dict(self, stream_order, breadcrumb_order) ==
    [streams |->
        Some([i \in 1..Len(stream_order) |->
                 CatalogEntry_to_dict(
                     self[stream_order[i]],
                     SelectSeq(breadcrumb_order,
                         LAMBDA b : b \in DOMAIN self[stream_order[i]].metadata))])]

\* Catalog.to_dict: super().to_dict()
Catalog_to_dict(self, stream_order, breadcrumb_order) ==
    BaseCatalog_to_dict(self, stream_order, breadcrumb_order)

\* catalog[stream_id].metadata.root.selected = False
Deselect(stream_id) ==
    /\ pc = "catalog"
    /\ stream_id \in DOMAIN catalog
    /\ catalog' = [catalog EXCEPT ![stream_id].metadata = Deselected(@)]
    /\ arg' = stream_id
    /\ pc' = "edited"
    /\ UNCHANGED <<mapping, mask, ret, wire, doc, parsed, entry, entry_dict, entry_parsed,
                   liveVars, stdVars, log, cat_wire, cat_dict, catalog2, masks>>

\* cat_dict = catalog.to_dict()
CatalogToDict(stream_order, breadcrumb_order) ==
    /\ pc = "edited"
    /\ cat_dict' = Catalog_to_dict(catalog, stream_order, breadcrumb_order)
    /\ pc' = "serialized"
    /\ UNCHANGED <<mapping, mask, arg, ret, wire, doc, parsed, entry, entry_dict,
                   entry_parsed, liveVars, stdVars, catalog, log, cat_wire, catalog2, masks>>

\* catalog2 = Catalog.from_dict(cat_dict)
CatalogReparse ==
    /\ pc = "serialized"
    /\ Catalog_from_dict_call(cat_dict).raised = None
    /\ catalog2' = Catalog_from_dict_call(cat_dict).value[1]
    /\ pc' = "reparsed"
    /\ UNCHANGED <<mapping, mask, arg, ret, wire, doc, parsed, entry, entry_dict,
                   entry_parsed, liveVars, stdVars, catalog, log, cat_wire, cat_dict, masks>>

\* masks = {id: e.metadata.resolve_selection() for id, e in catalog2.items()}
ResolveStreams ==
    /\ pc = "reparsed"
    /\ masks' = [id \in DOMAIN catalog2 |-> resolve_selection(catalog2[id].metadata)]
    /\ pc' = "exchanged"
    /\ UNCHANGED <<mapping, mask, arg, ret, wire, doc, parsed, entry, entry_dict,
                   entry_parsed, liveVars, stdVars, catalog, log, cat_wire, cat_dict,
                   catalog2>>

NextExchange ==
    \/ pc = "new" /\ \E data \in ExchangeDocs : CatalogFromDict(data)
    \/ pc = "catalog" /\ \E stream_id \in DOMAIN catalog : Deselect(stream_id)
    \/ pc = "edited" /\
        \E stream_order \in Orders(DOMAIN catalog),
           breadcrumb_order \in Orders(DocBreadcrumbs) :
            CatalogToDict(stream_order, breadcrumb_order)
    \/ CatalogReparse
    \/ ResolveStreams

SpecExchange == InitCatalog /\ [][NextExchange]_vars

----------------------------------------------------------------------------
(* The exchange: claim C11 *)

\* The stream that was deselected resolves, after the exchange, to false at
\* its root and at every well-formed breadcrumb under it.
DeselectedStaysDeselected ==
    \A b \in LookupBreadcrumbs : SelectionMask_getitem(masks[arg], b) = FALSE

\* The masks of the other streams are those of their metadata as first
\* parsed.
OthersUnchanged ==
    \A id \in DOMAIN masks \ {arg} :
        masks[id] =
            resolve_selection(Catalog_from_dict_call(cat_wire).value[1][id].metadata)

\* C11 as stated: deselection survives the exchange.  After a catalog
\* document is parsed, the root metadata of one stream is set to
\* selected=false, and the catalog is serialized and parsed again, the mask
\* resolved from that stream's reparsed metadata yields false for the root
\* and for every well-formed breadcrumb under it, with or without an entry,
\* and the masks of the other streams are what they were without the edit.
C11_DeselectionSurvives ==
    pc = "exchanged" => DeselectedStaysDeselected /\ OthersUnchanged

\* C11, amended: the same, for a stream whose root metadata does not have
\* inclusion automatic.
C11_DeselectionSurvivesUnlessAutomatic ==
    pc = "exchanged" =>
        /\ catalog[arg].metadata[<< >>].inclusion # Some("automatic") =>
               DeselectedStaysDeselected
        /\ OthersUnchanged

\* The stream users, selected at its root and at its property before the
\* edit, was deselected and went through the exchange next to the stream
\* orders, which is still selected.
C11_Witness ==
    /\ pc = "exchanged"
    /\ arg = Some("users")
    /\ DOMAIN masks = {Some("users"), Some("orders")}
    /\ LET before == Catalog_from_dict_call(cat_wire).value[1][arg].metadata
       IN  /\ DOMAIN before = {<< >>, <<"properties", "id">>}
           /\ before[<< >>].selected = Some(TRUE)
           /\ before[<<"properties", "id">>].selected = Some(TRUE)
    /\ catalog2[arg].metadata[<< >>].selected = Some(FALSE)
    /\ DeselectedStaysDeselected
    /\ SelectionMask_getitem(masks[Some("orders")], << >>) = TRUE

====
